---- MODULE Spec2Model ----
(***************************************************************************)
(* RupeeOne v0.7: the DatabaseManager data-access layer over one SQLite    *)
(* connection, and the data-management handlers of ExpenseTrackerApp       *)
(* (backup, restore, import, erase).                                       *)
(*                                                                         *)
(* The SQLite file is the committed store `db`; `work` is what the single  *)
(* connection reads (committed rows plus the rows of its open              *)
(* transaction); `inTxn` is sqlite3's Connection.in_transaction.  Python's *)
(* sqlite3 module (default isolation level) issues an implicit BEGIN       *)
(* before INSERT/UPDATE/DELETE/REPLACE when no transaction is open, and    *)
(* leaves the transaction open when the statement then raises.             *)
(***************************************************************************)
EXTENDS Integers, FiniteSets, Sequences, TLC

(* ---------------------------- bounds ----------------------------------- *)
NumDefaults == 2
MaxExpenseId == 2
MaxIncomeId == 1
MaxBudgetId == 2
MaxFormRows == 1

(* --------------------------- vocabulary --------------------------------- *)
default_categories ==
  << "Food", "Transport", "Utilities", "Rent", "Entertainment", "Shopping",
     "Healthcare", "Education", "Salary", "Freelance", "Investments",
     "Travel", "Fuel", "Books", "Gym", "Gifts" >>

DefaultNames == { default_categories[i] : i \in 1..NumDefaults }

Uncategorized == "Uncategorized"

\* category strings the callers pass: the seeded names and the sentinel
CatNames == DefaultNames \cup { Uncategorized }

CurrentMonth == "2025-01"
Months == { "2025-01", "2025-02" }
Dates == { "2025-01-10" }
Descriptions == { "Lunch" }
Sources == { "Salary" }
Amounts == { 250 }
BudgetAmounts == { 0, 1000 }
ImportedAmount == 150

ExpenseIds == 1..MaxExpenseId
IncomeIds == 1..MaxIncomeId
BudgetIds == 1..MaxBudgetId

Max(a, b) == IF a >= b THEN a ELSE b

(* ----------------------------- the store -------------------------------- *)
\* categories is a bag of names (the id column of the table is never read);
\* the other tables are sets of rows; seqE/seqI/seqB are the AUTOINCREMENT
\* counters of sqlite_sequence.
EmptyStore ==
  [ categories |-> [ n \in CatNames |-> 0 ],
    expenses |-> {}, seqE |-> 0,
    income |-> {}, seqI |-> 0,
    budgets |-> {}, seqB |-> 0 ]

CategoryCount(s) == LET RECURSIVE Sum(_)
                        Sum(S) == IF S = {} THEN 0
                                  ELSE LET n == CHOOSE x \in S : TRUE
                                       IN s.categories[n] + Sum(S \ {n})
                    IN Sum(CatNames)

\* INSERT INTO categories (name) VALUES (?)
InsertCategoryRow_Twice(s, name) ==
  [ s EXCEPT !.categories[name] = @ + 2 ]

InsertCategoryRow(s, name) ==
  [ s EXCEPT !.categories[name] = @ + 1 ]

\* the UNIQUE constraint on categories.name
CategoryNameTaken_NoUnique(s, name) == FALSE

CategoryNameTaken(s, name) == s.categories[name] > 0

\* _create_tables: seed the defaults when the table is empty
_create_tables_Reseed(s) ==
  [ s EXCEPT
      !.categories = [ n \in CatNames |->
                         IF n \in DefaultNames THEN Max(1, @[n]) ELSE @[n] ],
      !.budgets = IF @ = {}
                  THEN { [ id |-> s.seqB + 1, month_year |-> CurrentMonth,
                           budget_amount |-> 0 ] }
                  ELSE @,
      !.seqB = IF s.budgets = {} THEN @ + 1 ELSE @ ]

_create_tables(s) ==
  LET s1 == IF CategoryCount(s) = 0
            THEN [ s EXCEPT !.categories =
                     [ n \in CatNames |-> IF n \in DefaultNames THEN 1 ELSE 0 ] ]
            ELSE s
      s2 == IF s1.budgets = {}
            THEN [ s1 EXCEPT
                     !.budgets = { [ id |-> s1.seqB + 1,
                                     month_year |-> CurrentMonth,
                                     budget_amount |-> 0 ] },
                     !.seqB = @ + 1 ]
            ELSE s1
  IN s2

\* SELECT name FROM categories ORDER BY name ASC, as the set of names
CategoryNames(s) == { n \in CatNames : s.categories[n] > 0 }

\* conn: "open", "closed" (close() was called) or "none" (conn and cursor None)
\* last: the call the event loop has just dispatched (Idle between events)
\* budgetSet: per month, the amount of the latest successful
\* set_monthly_budget since the store was last merged or replaced (-1: none)
\* storeErrors: some statement has raised an injected store error so far
\* event: the handler the event loop has just dispatched, with the contents
\* of the fields it read (NoEvent between events and for direct calls)
\* selected_expense_id, selected_income_id: the row being edited (0: None)
\* add_update_expense_button, add_update_income_button: the command of the
\* add/update button of the form
\* cancel_expense_edit_button, cancel_income_edit_button: Cancel Edit is shown
\* edited_expense: the Expense row as it was when edit_expense_gui loaded it
\* into the form (NoRow outside an edit)
VARIABLES conn, inTxn, db, work, last, budgetSet, storeErrors,
          event, selected_expense_id, selected_income_id,
          add_update_expense_button, cancel_expense_edit_button,
          add_update_income_button, cancel_income_edit_button,
          edited_expense

\* the edit state of the two forms
expense_form == << selected_expense_id, add_update_expense_button,
                  cancel_expense_edit_button, edited_expense >>

income_form == << selected_income_id, add_update_income_button,
                 cancel_income_edit_button >>

vars == << conn, inTxn, db, work, last, budgetSet, storeErrors,
           event, expense_form, income_form >>

NoRow == [ id |-> 0 ]

\* item_values[0] of the row that view_expenses and view_income insert into
\* an empty tree ("No expenses recorded yet."): the empty string
Placeholder == 0 - 1

\* what the handler that has just run was called with, what it returned and
\* what it reported; Idle while the event loop waits for the next event
Call(op, args, ret, report, raised, fault) ==
  [ op |-> op, args |-> args, ret |-> ret, report |-> report,
    raised |-> raised, fault |-> fault ]

Idle == Call("idle", << >>, "None", "none", FALSE, "none")

NoEvent == [ handler |-> "none", fields |-> << >> ]

Init ==
  /\ conn = "open"
  /\ inTxn = FALSE
  /\ db = _create_tables(EmptyStore)
  /\ work = db
  /\ last = Idle
  /\ budgetSet = [ m \in Months |-> -1 ]
  /\ storeErrors = FALSE
  /\ event = NoEvent
  /\ selected_expense_id = 0
  /\ selected_income_id = 0
  /\ add_update_expense_button = "add_expense_gui"
  /\ cancel_expense_edit_button = FALSE
  /\ add_update_income_button = "add_income_gui"
  /\ cancel_income_edit_button = FALSE
  /\ edited_expense = NoRow

(* ------------------- sqlite3 connection primitives ---------------------- *)
\* Connection.commit(): the open transaction becomes the file's content
conn_commit(s) ==
  /\ work' = s
  /\ db' = s
  /\ inTxn' = FALSE

\* Connection.rollback(): the open transaction is discarded
\* (s is what the connection reads when rollback() is called)
conn_rollback_Noop(s) ==
  /\ work' = s
  /\ db' = db
  /\ inTxn' = TRUE

conn_rollback(s) ==
  /\ work' = db
  /\ db' = db
  /\ inTxn' = FALSE

\* Cursor.execute() of a DML statement that raises sqlite3.Error: the
\* implicit BEGIN has been issued, the statement changed nothing
execute_raises(s) ==
  /\ inTxn' = TRUE
  /\ work' = s
  /\ db' = db

\* a call that returns before touching the connection, or whose execute()
\* raises on a closed connection
untouched == UNCHANGED << conn, inTxn, db, work >>

(* --------------------------- statements --------------------------------- *)
\* INSERT INTO expenses (date, category, amount, description) VALUES (?,?,?,?)
InsertExpense(s, date, category, amount, description) ==
  [ s EXCEPT
      !.expenses = @ \cup { [ id |-> s.seqE + 1, date |-> date,
                              category |-> category, amount |-> amount,
                              description |-> description ] },
      !.seqE = @ + 1 ]

\* UPDATE expenses SET date=?, category=?, amount=?, description=? WHERE id=?
UpdateExpense_NoWhere(s, id, date, category, amount, description) ==
  [ s EXCEPT
      !.expenses = { [ id |-> r.id, date |-> date, category |-> category,
                       amount |-> amount, description |-> description ]
                     : r \in @ } ]

UpdateExpense(s, id, date, category, amount, description) ==
  [ s EXCEPT
      !.expenses = { IF r.id = id
                     THEN [ id |-> id, date |-> date, category |-> category,
                            amount |-> amount, description |-> description ]
                     ELSE r : r \in @ } ]

\* DELETE FROM expenses WHERE id = ?
DeleteExpense(s, id) ==
  [ s EXCEPT !.expenses = { r \in @ : r.id # id } ]

\* INSERT INTO income (date, source, amount, description) VALUES (?,?,?,?)
InsertIncome(s, date, source, amount, description) ==
  [ s EXCEPT
      !.income = @ \cup { [ id |-> s.seqI + 1, date |-> date,
                            source |-> source, amount |-> amount,
                            description |-> description ] },
      !.seqI = @ + 1 ]

\* UPDATE income SET date=?, source=?, amount=?, description=? WHERE id=?
UpdateIncome(s, id, date, source, amount, description) ==
  [ s EXCEPT
      !.income = { IF r.id = id
                   THEN [ id |-> id, date |-> date, source |-> source,
                          amount |-> amount, description |-> description ]
                   ELSE r : r \in @ } ]

\* INSERT OR REPLACE INTO budgets (month_year, budget_amount) VALUES (?, ?):
\* the row of that month is deleted, the new row takes the next id
UpsertBudget_KeepOld(s, month_year, amount) ==
  [ s EXCEPT
      !.budgets = @ \cup { [ id |-> s.seqB + 1, month_year |-> month_year,
                             budget_amount |-> amount ] },
      !.seqB = @ + 1 ]

UpsertBudget(s, month_year, amount) ==
  [ s EXCEPT
      !.budgets = { r \in @ : r.month_year # month_year }
                    \cup { [ id |-> s.seqB + 1, month_year |-> month_year,
                             budget_amount |-> amount ] },
      !.seqB = @ + 1 ]

\* UPDATE categories SET name = ? WHERE name = ?  (new_name, old_name)
RenameCategoryRows(s, old_name, new_name) ==
  IF old_name = new_name THEN s
  ELSE [ s EXCEPT !.categories =
           [ n \in CatNames |->
               IF n = old_name THEN 0
               ELSE IF n = new_name THEN @[new_name] + @[old_name]
               ELSE @[n] ] ]

\* the UPDATE above violates UNIQUE(name)
RenameViolatesUnique(s, old_name, new_name) ==
  /\ old_name # new_name
  /\ s.categories[old_name] > 0
  /\ CategoryNameTaken(s, new_name)

\* UPDATE expenses SET category = ? WHERE category = ?  (new_name, old_name)
RenameExpenseCategory_Skip(s, old_name, new_name) == s

RenameExpenseCategory(s, old_name, new_name) ==
  [ s EXCEPT
      !.expenses = { IF r.category = old_name
                     THEN [ r EXCEPT !.category = new_name ]
                     ELSE r : r \in @ } ]

\* DELETE FROM categories WHERE name = ?
DeleteCategoryRows(s, name) ==
  [ s EXCEPT !.categories[name] = 0 ]

(* ------------------------ reading operations ---------------------------- *)
\* get_categories()
get_categories ==
  IF conn # "open" THEN {} ELSE CategoryNames(work)

\* SELECT budget_amount FROM budgets WHERE month_year = ?
BudgetRows(s, month_year) == { r \in s.budgets : r.month_year = month_year }

\* get_monthly_budget(month_year): 0.0 without a cursor, on an error and
\* when the month has no row
get_monthly_budget_AnyRow(month_year) ==
  IF conn # "open" THEN 0
  ELSE IF work.budgets = {} THEN 0
  ELSE (CHOOSE r \in work.budgets :
          \A q \in work.budgets : r.budget_amount >= q.budget_amount).budget_amount

get_monthly_budget(month_year) ==
  IF conn # "open" THEN 0
  ELSE IF BudgetRows(work, month_year) = {} THEN 0
  ELSE (CHOOSE r \in BudgetRows(work, month_year) : TRUE).budget_amount

\* get_monthly_budget shows the "Failed to get budget" error: its execute()
\* raised, which it does on a closed connection
get_monthly_budget_error(month_year) == conn = "closed"

\* fetch_expenses() without filters, as a set of rows
fetch_expenses ==
  IF conn # "open" THEN {} ELSE work.expenses

\* ---- fetch_expenses(start_date, end_date, category, year, month_year,
\* ---- keyword): the query it builds, as SQLite evaluates it ----
\* the dates the DateEntry widgets produce ("%Y-%m-%d"), and their order
\* under SQLite's text comparison
FetchDates == { "2024-12-31", "2025-01-10", "2025-02-01" }

DateOrder(date) ==
  CASE date = "2024-01-20" -> 0
    [] date = "2024-12-31" -> 1
    [] date = "2025-01-10" -> 2
    [] date = "2025-02-01" -> 3

\* STRFTIME('%Y', date) and STRFTIME('%Y-%m', date)
strftime_Y(date) ==
  CASE date = "2024-01-20" -> "2024"
    [] date = "2024-12-31" -> "2024"
    [] date = "2025-01-10" -> "2025"
    [] date = "2025-02-01" -> "2025"

strftime_Ym(date) ==
  CASE date = "2024-01-20" -> "2024-01"
    [] date = "2024-12-31" -> "2024-12"
    [] date = "2025-01-10" -> "2025-01"
    [] date = "2025-02-01" -> "2025-02"

\* the characters of the texts that occur as description, category or keyword
Chars(text) ==
  CASE text = "" -> << >>
    [] text = "Lunch" -> << "L", "u", "n", "c", "h" >>
    [] text = "lunch" -> << "l", "u", "n", "c", "h" >>
    [] text = "Imported" -> << "I", "m", "p", "o", "r", "t", "e", "d" >>
    [] text = "_" -> << "_" >>
    [] text = "Food" -> << "F", "o", "o", "d" >>
    [] text = "fOOD" -> << "f", "O", "O", "D" >>
    [] text = "Other" -> << "O", "t", "h", "e", "r" >>
    [] text = "Transport" -> << "T", "r", "a", "n", "s", "p", "o", "r", "t" >>
    [] text = "Utilities" -> << "U", "t", "i", "l", "i", "t", "i", "e", "s" >>
    [] text = "Rent" -> << "R", "e", "n", "t" >>
    [] text = "Uncategorized" ->
         << "U", "n", "c", "a", "t", "e", "g", "o", "r", "i", "z", "e", "d" >>

\* LIKE folds the case of ASCII letters
lower(ch) ==
  CASE ch = "L" -> "l" [] ch = "I" -> "i" [] ch = "F" -> "f"
    [] ch = "T" -> "t" [] ch = "U" -> "u" [] ch = "R" -> "r"
    [] ch = "O" -> "o" [] ch = "D" -> "d"
    [] OTHER -> ch

\* text LIKE pattern: '%' matches any run of characters, '_' any one
RECURSIVE Like(_, _)
Like(pattern, text) ==
  IF pattern = << >> THEN text = << >>
  ELSE IF Head(pattern) = "%"
  THEN Like(Tail(pattern), text) \/ (text # << >> /\ Like(pattern, Tail(text)))
  ELSE /\ text # << >>
       /\ (Head(pattern) = "_" \/ lower(Head(pattern)) = lower(Head(text)))
       /\ Like(Tail(pattern), Tail(text))

\* params.append(f"%{keyword}%")
KeywordPattern(keyword) == << "%" >> \o Chars(keyword) \o << "%" >>

\* the WHERE clause; an absent (None) or empty argument is ""
RowSelected(r, start_date, end_date, category, year, month_year, keyword) ==
  /\ start_date # "" => DateOrder(r.date) >= DateOrder(start_date)
  /\ end_date # "" => DateOrder(r.date) <= DateOrder(end_date)
  /\ (category # "" /\ category # "All Categories") => r.category = category
  /\ (year # "" /\ year # "All Years") => strftime_Y(r.date) = year
  /\ month_year # "" => strftime_Ym(r.date) = month_year
  /\ keyword # "" => \/ Like(KeywordPattern(keyword), Chars(r.description))
                     \/ Like(KeywordPattern(keyword), Chars(r.category))

\* ORDER BY date DESC (rows of one date come in rowid order)
RECURSIVE order_by_date_desc_Unsorted(_)
order_by_date_desc_Unsorted(rows) ==
  IF rows = {} THEN << >>
  ELSE LET first == CHOOSE r \in rows : \A q \in rows : r.id <= q.id
       IN << first >> \o order_by_date_desc_Unsorted(rows \ { first })

RECURSIVE order_by_date_desc(_)
order_by_date_desc(rows) ==
  IF rows = {} THEN << >>
  ELSE LET first == CHOOSE r \in rows : \A q \in rows :
                      \/ DateOrder(r.date) > DateOrder(q.date)
                      \/ DateOrder(r.date) = DateOrder(q.date) /\ r.id <= q.id
       IN << first >> \o order_by_date_desc(rows \ { first })

fetch_expenses_where(start_date, end_date, category, year, month_year, keyword) ==
  IF conn # "open" THEN << >>
  ELSE order_by_date_desc(
         { r \in work.expenses :
             RowSelected(r, start_date, end_date, category, year, month_year,
                         keyword) })

\* ---- the figures the summary panels and the charts compute from the rows
\* ---- that fetch_expenses returns ----
\* str.upper() of one character of the category texts
upper(ch) ==
  CASE ch = "f" -> "F" [] ch = "o" -> "O" [] ch = "t" -> "T"
    [] ch = "u" -> "U" [] ch = "r" -> "R"
    [] OTHER -> ch

\* str.capitalize() as it would be if it returned the text as stored
capitalize_AsStored(text) == Chars(text)

\* str.capitalize(): the first character upper-cased, the others lower-cased
capitalize(text) ==
  [ i \in 1..Len(Chars(text)) |->
      IF i = 1 THEN upper(Chars(text)[i]) ELSE lower(Chars(text)[i]) ]

\* category_totals = defaultdict(float);
\* for exp in expenses: category_totals[exp[2].capitalize()] += exp[3]
RECURSIVE category_totals(_)
category_totals(expenses) ==
  IF expenses = << >> THEN << >>
  ELSE LET exp == expenses[Len(expenses)]
           totals == category_totals(SubSeq(expenses, 1, Len(expenses) - 1))
           key == capitalize(exp.category)
       IN IF key \in DOMAIN totals
          THEN [ totals EXCEPT ![key] = @ + exp.amount ]
          ELSE [ k \in DOMAIN totals \cup { key } |->
                   IF k = key THEN exp.amount ELSE totals[k] ]

\* sum(totals.values())
RECURSIVE sum_values(_)
sum_values(totals) ==
  IF DOMAIN totals = {} THEN 0
  ELSE LET k == CHOOSE k \in DOMAIN totals : TRUE
       IN totals[k] + sum_values([ q \in DOMAIN totals \ { k } |-> totals[q] ])

\* the choices of the analytics comboboxes (all three read-only)
AnalyticsYears == { "All Years", "2024", "2025" }
AnalyticsMonths == { "All", "01", "02" }
AnalyticsCategories == { "All Categories" } \cup get_categories

\* f"{selected_year}-{selected_month}", and f"%-{selected_month}"
month_year_filter(selected_year, selected_month) ==
  CASE selected_year = "2024" /\ selected_month = "01" -> "2024-01"
    [] selected_year = "2024" /\ selected_month = "02" -> "2024-02"
    [] selected_year = "2025" /\ selected_month = "01" -> "2025-01"
    [] selected_year = "2025" /\ selected_month = "02" -> "2025-02"
    [] selected_year = "%" /\ selected_month = "01" -> "%-01"
    [] selected_year = "%" /\ selected_month = "02" -> "%-02"

\* get_filtered_data_for_charts(data_type="expenses")
get_filtered_data_for_charts(selected_year, selected_month, selected_category) ==
  LET data ==
        IF selected_year = "All Years"
        THEN IF selected_month = "All"
             THEN fetch_expenses_where("", "", "", "", "", "")
             ELSE fetch_expenses_where("", "", "", "",
                                       month_year_filter("%", selected_month), "")
        ELSE IF selected_month = "All"
             THEN fetch_expenses_where("", "", "", selected_year, "", "")
             ELSE fetch_expenses_where("", "", "", "",
                    month_year_filter(selected_year, selected_month), "")
  IN IF selected_category # "All Categories"
     THEN SelectSeq(data, LAMBDA d : d.category = selected_category)
     ELSE data

\* the label of the synthetic slice
Other == Chars("Other")

\* the slices kept on their own: percentage = (value / total_sum) * 100,
\* percentage >= min_percentage (2.0)
LargeLabels(totals) ==
  { label \in DOMAIN totals : totals[label] * 100 >= 2 * sum_values(totals) }

\* other_sum: the values of the labels that are not kept
other_sum(totals) ==
  sum_values([ label \in DOMAIN totals \ LargeLabels(totals) |-> totals[label] ])

\* large_slices, after `if other_sum > 0: large_slices["Other"] = other_sum`
large_slices(totals) ==
  IF other_sum(totals) > 0
  THEN [ label \in LargeLabels(totals) \cup { Other } |->
           IF label = Other THEN other_sum(totals) ELSE totals[label] ]
  ELSE [ label \in LargeLabels(totals) |-> totals[label] ]

\* generate_pie_chart_filtered: the slices drawn, none when a message is
\* shown instead of a chart
generate_pie_chart_filtered(selected_year, selected_month, selected_category) ==
  LET expenses == get_filtered_data_for_charts(selected_year, selected_month,
                                               selected_category)
  IN IF selected_year = "All Years" \/ expenses = << >>
     THEN << >>
     ELSE large_slices(category_totals(expenses))

\* labels_full_year = [f"{selected_year}-{m}" for m in all_months]
labels_full_year(selected_year) ==
  CASE selected_year = "2024" ->
         << "2024-01", "2024-02", "2024-03", "2024-04", "2024-05", "2024-06",
            "2024-07", "2024-08", "2024-09", "2024-10", "2024-11", "2024-12" >>
    [] selected_year = "2025" ->
         << "2025-01", "2025-02", "2025-03", "2025-04", "2025-05", "2025-06",
            "2025-07", "2025-08", "2025-09", "2025-10", "2025-11", "2025-12" >>

\* monthly_totals = defaultdict(float); for exp in expenses:
\*   if str(exp_date.year) == selected_year:
\*     monthly_totals[exp_date.strftime("%Y-%m")] += exp[3]
RECURSIVE monthly_totals(_, _)
monthly_totals(expenses, selected_year) ==
  IF expenses = << >> THEN << >>
  ELSE LET exp == expenses[Len(expenses)]
           totals == monthly_totals(SubSeq(expenses, 1, Len(expenses) - 1),
                                    selected_year)
           month_year_str == strftime_Ym(exp.date)
       IN IF strftime_Y(exp.date) # selected_year
          THEN totals
          ELSE IF month_year_str \in DOMAIN totals
          THEN [ totals EXCEPT ![month_year_str] = @ + exp.amount ]
          ELSE [ k \in DOMAIN totals \cup { month_year_str } |->
                   IF k = month_year_str THEN exp.amount ELSE totals[k] ]

\* generate_bar_chart_filtered: the amounts drawn, none when a message is
\* shown instead of a chart
generate_bar_chart_filtered(selected_year, selected_month, selected_category) ==
  LET expenses == get_filtered_data_for_charts(selected_year, selected_month,
                                               selected_category)
      totals == monthly_totals(expenses, selected_year)
      amounts == [ i \in 1..12 |->
                     IF labels_full_year(selected_year)[i] \in DOMAIN totals
                     THEN totals[labels_full_year(selected_year)[i]]
                     ELSE 0 ]
  IN IF selected_year = "All Years" \/ selected_month # "All"
     THEN << >>
     ELSE IF expenses = << >>
     THEN << >>
     ELSE IF \A i \in 1..12 : amounts[i] = 0
     THEN << >>
     ELSE amounts

\* sum(exp[3] for exp in expenses_this_month)
RECURSIVE sum_amounts(_)
sum_amounts(expenses) ==
  IF expenses = << >> THEN 0
  ELSE Head(expenses).amount + sum_amounts(Tail(expenses))

\* the budget status as it would be if a remaining budget of 0 were over
\* budget
on_track_Strict(remaining_budget) == remaining_budget > 0

\* `if remaining_budget >= 0:` On Track, else Over Budget
on_track(remaining_budget) == remaining_budget >= 0

\* update_dashboard_summary: the remaining budget of the current month and
\* the status label
update_dashboard_summary ==
  LET expenses_this_month ==
        fetch_expenses_where("", "", "", "", CurrentMonth, "")
      total_spent == sum_amounts(expenses_this_month)
      monthly_budget == get_monthly_budget(CurrentMonth)
      remaining_budget == monthly_budget - total_spent
  IN [ remaining |-> remaining_budget,
       status |-> IF on_track(remaining_budget)
                  THEN "On Track!" ELSE "Over Budget!" ]

\* update_summary_and_budget_display: the remaining budget of the month
\* selected on the Expenses tab (the current month when none is selected)
\* and the suffix of its label
update_summary_and_budget_display(selected_month, selected_year) ==
  LET current_month_year ==
        IF selected_month = "" \/ selected_year = ""
        THEN CurrentMonth
        ELSE month_year_filter(selected_year, selected_month)
      expenses_this_month ==
        fetch_expenses_where("", "", "", "", current_month_year, "")
      total_spent_this_month == sum_amounts(expenses_this_month)
      monthly_budget == get_monthly_budget(current_month_year)
      remaining_overall_budget == monthly_budget - total_spent_this_month
  IN [ month |-> current_month_year,
       remaining |-> remaining_overall_budget,
       status |-> IF on_track(remaining_overall_budget)
                  THEN "" ELSE "(Over Budget)" ]

(* ------------------- DatabaseManager: mutating methods ------------------ *)
\* Every method: `if not self.cursor: return False`; on a closed connection
\* execute() raises sqlite3.ProgrammingError, a sqlite3.Error, inside the try.
\* fault names the statement on which the store raises a sqlite3.Error.

add_expense(date, category, amount, description, fault) ==
  LET args == << date, category, amount, description >> IN
  /\ conn' = conn
  /\ IF conn = "none"
     THEN /\ UNCHANGED << inTxn, db, work >>
          /\ last' = Call("add_expense", args, "False", "none", FALSE, "none")
     ELSE IF conn = "closed"
     THEN /\ UNCHANGED << inTxn, db, work >>
          /\ last' = Call("add_expense", args, "False", "error", FALSE, "none")
     ELSE IF fault = "stmt1"
     THEN /\ execute_raises(work)
          /\ last' = Call("add_expense", args, "False", "error", FALSE, fault)
     ELSE /\ conn_commit(InsertExpense(work, date, category, amount, description))
          /\ last' = Call("add_expense", args, "True", "none", FALSE, "none")

update_expense(expense_id, date, category, amount, description, fault) ==
  LET args == << expense_id, date, category, amount, description >> IN
  /\ conn' = conn
  /\ IF conn = "none"
     THEN /\ UNCHANGED << inTxn, db, work >>
          /\ last' = Call("update_expense", args, "False", "none", FALSE, "none")
     ELSE IF conn = "closed"
     THEN /\ UNCHANGED << inTxn, db, work >>
          /\ last' = Call("update_expense", args, "False", "error", FALSE, "none")
     ELSE IF fault = "stmt1"
     THEN /\ execute_raises(work)
          /\ last' = Call("update_expense", args, "False", "error", FALSE, fault)
     ELSE /\ conn_commit(UpdateExpense(work, expense_id, date, category,
                                       amount, description))
          /\ last' = Call("update_expense", args, "True", "none", FALSE, "none")

delete_expense(expense_id, fault) ==
  LET args == << expense_id >> IN
  /\ conn' = conn
  /\ IF conn = "none"
     THEN /\ UNCHANGED << inTxn, db, work >>
          /\ last' = Call("delete_expense", args, "False", "none", FALSE, "none")
     ELSE IF conn = "closed"
     THEN /\ UNCHANGED << inTxn, db, work >>
          /\ last' = Call("delete_expense", args, "False", "error", FALSE, "none")
     ELSE IF fault = "stmt1"
     THEN /\ execute_raises(work)
          /\ last' = Call("delete_expense", args, "False", "error", FALSE, fault)
     ELSE /\ conn_commit(DeleteExpense(work, expense_id))
          /\ last' = Call("delete_expense", args, "True", "none", FALSE, "none")

add_income(date, source, amount, description, fault) ==
  LET args == << date, source, amount, description >> IN
  /\ conn' = conn
  /\ IF conn = "none"
     THEN /\ UNCHANGED << inTxn, db, work >>
          /\ last' = Call("add_income", args, "False", "none", FALSE, "none")
     ELSE IF conn = "closed"
     THEN /\ UNCHANGED << inTxn, db, work >>
          /\ last' = Call("add_income", args, "False", "error", FALSE, "none")
     ELSE IF fault = "stmt1"
     THEN /\ execute_raises(work)
          /\ last' = Call("add_income", args, "False", "error", FALSE, fault)
     ELSE /\ conn_commit(InsertIncome(work, date, source, amount, description))
          /\ last' = Call("add_income", args, "True", "none", FALSE, "none")

update_income(income_id, date, source, amount, description, fault) ==
  LET args == << income_id, date, source, amount, description >> IN
  /\ conn' = conn
  /\ IF conn = "none"
     THEN /\ UNCHANGED << inTxn, db, work >>
          /\ last' = Call("update_income", args, "False", "none", FALSE, "none")
     ELSE IF conn = "closed"
     THEN /\ UNCHANGED << inTxn, db, work >>
          /\ last' = Call("update_income", args, "False", "error", FALSE, "none")
     ELSE IF fault = "stmt1"
     THEN /\ execute_raises(work)
          /\ last' = Call("update_income", args, "False", "error", FALSE, fault)
     ELSE /\ conn_commit(UpdateIncome(work, income_id, date, source,
                                      amount, description))
          /\ last' = Call("update_income", args, "True", "none", FALSE, "none")

set_monthly_budget(month_year, amount, fault) ==
  LET args == << month_year, amount >> IN
  /\ conn' = conn
  /\ IF conn = "none"
     THEN /\ UNCHANGED << inTxn, db, work >>
          /\ last' = Call("set_monthly_budget", args, "False", "none", FALSE, "none")
     ELSE IF conn = "closed"
     THEN /\ UNCHANGED << inTxn, db, work >>
          /\ last' = Call("set_monthly_budget", args, "False", "error", FALSE, "none")
     ELSE IF fault = "stmt1"
     THEN /\ execute_raises(work)
          /\ last' = Call("set_monthly_budget", args, "False", "error", FALSE, fault)
     ELSE /\ conn_commit(UpsertBudget(work, month_year, amount))
          /\ last' = Call("set_monthly_budget", args, "True", "none", FALSE, "none")

\* the IntegrityError handler reports the duplicate and returns; it does not
\* roll back, so the implicit transaction of the failed INSERT stays open
add_category(category_name, fault) ==
  LET args == << category_name >> IN
  /\ conn' = conn
  /\ IF conn = "none"
     THEN /\ UNCHANGED << inTxn, db, work >>
          /\ last' = Call("add_category", args, "False", "none", FALSE, "none")
     ELSE IF conn = "closed"
     THEN /\ UNCHANGED << inTxn, db, work >>
          /\ last' = Call("add_category", args, "False", "error", FALSE, "none")
     ELSE IF fault = "stmt1"
     THEN /\ execute_raises(work)
          /\ last' = Call("add_category", args, "False", "error", FALSE, fault)
     ELSE IF CategoryNameTaken(work, category_name)
     THEN /\ execute_raises(work)
          /\ last' = Call("add_category", args, "False", "duplicate", FALSE, "none")
     ELSE /\ conn_commit(InsertCategoryRow(work, category_name))
          /\ last' = Call("add_category", args, "True", "none", FALSE, "none")

\* conn.execute("BEGIN TRANSACTION") raises OperationalError when a
\* transaction is already open, and ProgrammingError on a closed connection;
\* both handlers call conn.rollback(), which raises on a closed connection
update_category(old_name, new_name, fault) ==
  LET args == << old_name, new_name >> IN
  /\ conn' = conn
  /\ IF conn = "none"
     THEN /\ UNCHANGED << inTxn, db, work >>
          /\ last' = Call("update_category", args, "False", "none", FALSE, "none")
     ELSE IF conn = "closed"
     THEN /\ UNCHANGED << inTxn, db, work >>
          /\ last' = Call("update_category", args, "Raised", "error", TRUE, "none")
     ELSE IF inTxn
     THEN /\ conn_rollback(work)
          /\ last' = Call("update_category", args, "False", "error", FALSE, "begin")
     ELSE IF fault = "stmt1"
     THEN /\ conn_rollback(work)
          /\ last' = Call("update_category", args, "False", "error", FALSE, fault)
     ELSE IF RenameViolatesUnique(work, old_name, new_name)
     THEN /\ conn_rollback(work)
          /\ last' = Call("update_category", args, "False", "duplicate", FALSE, "none")
     ELSE IF fault = "stmt2"
     THEN /\ conn_rollback(RenameCategoryRows(work, old_name, new_name))
          /\ last' = Call("update_category", args, "False", "error", FALSE, fault)
     ELSE /\ conn_commit(RenameExpenseCategory(
                           RenameCategoryRows(work, old_name, new_name),
                           old_name, new_name))
          /\ last' = Call("update_category", args, "True", "none", FALSE, "none")

delete_category(category_name, fault) ==
  LET args == << category_name >> IN
  /\ conn' = conn
  /\ IF conn = "none"
     THEN /\ UNCHANGED << inTxn, db, work >>
          /\ last' = Call("delete_category", args, "False", "none", FALSE, "none")
     ELSE IF conn = "closed"
     THEN /\ UNCHANGED << inTxn, db, work >>
          /\ last' = Call("delete_category", args, "Raised", "error", TRUE, "none")
     ELSE IF inTxn
     THEN /\ conn_rollback(work)
          /\ last' = Call("delete_category", args, "False", "error", FALSE, "begin")
     ELSE IF fault = "stmt1"
     THEN /\ conn_rollback(work)
          /\ last' = Call("delete_category", args, "False", "error", FALSE, fault)
     ELSE IF fault = "stmt2"
     THEN /\ conn_rollback(RenameExpenseCategory(work, category_name, Uncategorized))
          /\ last' = Call("delete_category", args, "False", "error", FALSE, fault)
     ELSE /\ conn_commit(DeleteCategoryRows(
                           RenameExpenseCategory(work, category_name, Uncategorized),
                           category_name))
          /\ last' = Call("delete_category", args, "True", "none", FALSE, "none")

(* ---------------- files chosen in the restore/import dialogs ------------- *)
ImportedDescription == "Imported"

ImportedExpenseRow ==
  [ id |-> 1, date |-> "2025-01-10", category |-> default_categories[NumDefaults],
    amount |-> ImportedAmount, description |-> ImportedDescription ]

ImportedIncomeRow ==
  [ id |-> 1, date |-> "2025-01-10", source |-> "Salary",
    amount |-> ImportedAmount, description |-> ImportedDescription ]

\* an id that collides with the seeded Budget row but names another month,
\* and a month that collides with it under another id
ImportedBudgetRows ==
  { [ id |-> 1, month_year |-> "2025-02", budget_amount |-> ImportedAmount ],
    [ id |-> 2, month_year |-> "2025-01", budget_amount |-> ImportedAmount ] }

\* readable: the four SELECTs on the temporary connection succeed;
\* catCols: the number of columns of the file's categories table.
\* A file is empty, or holds one row per table (one of the two budget rows,
\* or none); an unreadable file and a one-column categories table complete
\* the set.
FullFile(budgets, catCols) ==
  [ readable |-> TRUE, catCols |-> catCols,
    expenses |-> { ImportedExpenseRow },
    income |-> { ImportedIncomeRow },
    categories |-> << Uncategorized, default_categories[1] >>,
    budgets |-> budgets ]

EmptyFile(budgets) ==
  [ readable |-> TRUE, catCols |-> 2, expenses |-> {}, income |-> {},
    categories |-> << >>, budgets |-> budgets ]

UnreadableFile ==
  [ readable |-> FALSE, catCols |-> 2, expenses |-> {}, income |-> {},
    categories |-> << >>, budgets |-> {} ]

FileBudgets == { {} } \cup { { b } : b \in ImportedBudgetRows }

ExternalFiles ==
  { FullFile(b, 2) : b \in FileBudgets }
    \cup { EmptyFile(b) : b \in FileBudgets }
    \cup { FullFile({}, 1), UnreadableFile }

NoFile == [ readable |-> FALSE, catCols |-> 0, expenses |-> {}, income |-> {},
            categories |-> << >>, budgets |-> {} ]

\* the store a database file written by this program holds
FileStore(f) ==
  [ categories |-> [ n \in CatNames |->
                       IF \E i \in DOMAIN f.categories : f.categories[i] = n
                       THEN 1 ELSE 0 ],
    expenses |-> f.expenses, seqE |-> Cardinality(f.expenses),
    income |-> f.income, seqI |-> Cardinality(f.income),
    budgets |-> f.budgets,
    seqB |-> IF f.budgets = {} THEN 0
             ELSE (CHOOSE b \in f.budgets : TRUE).id ]

RestoreFiles == { f \in ExternalFiles : f.readable /\ f.catCols = 2 }

(* ------------------------- import statements ----------------------------- *)
\* INSERT OR REPLACE INTO expenses (id, date, category, amount, description)
ReplaceExpense_Ignore(s, row) ==
  IF \E r \in s.expenses : r.id = row.id THEN s
  ELSE [ s EXCEPT !.expenses = @ \cup { row }, !.seqE = Max(@, row.id) ]

ReplaceExpense(s, row) ==
  [ s EXCEPT !.expenses = { r \in @ : r.id # row.id } \cup { row },
             !.seqE = Max(@, row.id) ]

\* INSERT OR REPLACE INTO income (id, date, source, amount, description)
ReplaceIncome(s, row) ==
  [ s EXCEPT !.income = { r \in @ : r.id # row.id } \cup { row },
             !.seqI = Max(@, row.id) ]

\* INSERT OR IGNORE INTO categories (name) VALUES (?)
InsertOrIgnoreCategory(s, name) ==
  IF CategoryNameTaken(s, name) THEN s ELSE InsertCategoryRow(s, name)

\* INSERT OR REPLACE INTO budgets (id, month_year, budget_amount): the rows
\* that conflict on the primary key or on UNIQUE(month_year) are deleted
ReplaceBudget(s, row) ==
  [ s EXCEPT !.budgets = { r \in @ : r.id # row.id
                                     /\ r.month_year # row.month_year }
                           \cup { row },
             !.seqB = Max(@, row.id) ]

\* the rows of a fetched table in rowid order
RECURSIVE RowsInOrder(_)
RowsInOrder(rows) ==
  IF rows = {} THEN << >>
  ELSE LET first == CHOOSE r \in rows : \A q \in rows : r.id <= q.id
       IN << first >> \o RowsInOrder(rows \ { first })

\* for exp in temp_expenses: INSERT OR REPLACE INTO expenses
RECURSIVE ImportExpenseRows(_, _)
ImportExpenseRows(s, rows) ==
  IF rows = << >> THEN s
  ELSE ImportExpenseRows(ReplaceExpense(s, Head(rows)), Tail(rows))

\* for inc in temp_income: INSERT OR REPLACE INTO income
RECURSIVE ImportIncomeRows(_, _)
ImportIncomeRows(s, rows) ==
  IF rows = << >> THEN s
  ELSE ImportIncomeRows(ReplaceIncome(s, Head(rows)), Tail(rows))

\* for cat in temp_categories: INSERT OR IGNORE INTO categories
RECURSIVE ImportCategoryRows(_, _)
ImportCategoryRows(s, names) ==
  IF names = << >> THEN s
  ELSE ImportCategoryRows(InsertOrIgnoreCategory(s, Head(names)), Tail(names))

\* for budget in temp_budgets: INSERT OR REPLACE INTO budgets
RECURSIVE ImportBudgetRows(_, _)
ImportBudgetRows(s, rows) ==
  IF rows = << >> THEN s
  ELSE ImportBudgetRows(ReplaceBudget(s, Head(rows)), Tail(rows))

ImportExpenses(s, f) == ImportExpenseRows(s, RowsInOrder(f.expenses))
ImportIncome(s, f) == ImportIncomeRows(s, RowsInOrder(f.income))
ImportCategories(s, f) == ImportCategoryRows(s, f.categories)
ImportBudgets(s, f) == ImportBudgetRows(s, RowsInOrder(f.budgets))

(* ------------------------------ start-up -------------------------------- *)
\* run_app() after the window was closed: DatabaseManager.__init__ connects
\* to the existing file and runs _create_tables; what an earlier connection
\* had not committed is gone
__init__ ==
  /\ conn' = "open"
  /\ db' = _create_tables(db)
  /\ work' = db'
  /\ inTxn' = FALSE
  /\ last' = Call("__init__", << >>, "None", "none", FALSE, "none")

(* ------------------ ExpenseTrackerApp: data handlers -------------------- *)
\* DatabaseManager.close(): an open transaction is lost with the connection
\* DatabaseManager._connect(): a new connection on the file

\* path: a file was chosen in the save dialog; copyOk: shutil.copyfile
\* returned.  The except branch does not reconnect.
backup_database(path, copyOk) ==
  /\ IF ~path
     THEN /\ untouched
          /\ last' = Call("backup_database", << >>, "Cancelled", "none", FALSE, "none")
     ELSE IF ~copyOk
     THEN /\ conn' = IF conn = "none" THEN "none" ELSE "closed"
          /\ work' = db
          /\ db' = db
          /\ inTxn' = FALSE
          /\ last' = Call("backup_database", << >>, "Failed", "error", FALSE, "copy")
     ELSE /\ conn' = "open"
          /\ work' = db
          /\ db' = db
          /\ inTxn' = FALSE
          /\ last' = Call("backup_database", << >>, "Done", "none", FALSE, "none")

\* restore_database as it would be if it closed the connection before asking
restore_database_CloseFirst(confirm, file, copyOk) ==
  /\ IF ~confirm \/ file = NoFile
     THEN /\ conn' = "closed"
          /\ UNCHANGED << inTxn, db, work >>
          /\ last' = Call("restore_database", << >>,
                          IF confirm THEN "Cancelled" ELSE "Declined",
                          "none", FALSE, "none")
     ELSE /\ conn' = "open"
          /\ db' = IF copyOk THEN FileStore(file) ELSE db
          /\ work' = db'
          /\ inTxn' = FALSE
          /\ last' = Call("restore_database", << file >>,
                          IF copyOk THEN "Restored" ELSE "Failed",
                          IF copyOk THEN "none" ELSE "error", FALSE,
                          IF copyOk THEN "none" ELSE "copy")

\* the except branch reconnects
restore_database(confirm, file, copyOk) ==
  /\ IF ~confirm
     THEN /\ untouched
          /\ last' = Call("restore_database", << >>, "Declined", "none", FALSE, "none")
     ELSE IF file = NoFile
     THEN /\ untouched
          /\ last' = Call("restore_database", << >>, "Cancelled", "none", FALSE, "none")
     ELSE IF ~copyOk
     THEN /\ conn' = "open"
          /\ work' = db
          /\ db' = db
          /\ inTxn' = FALSE
          /\ last' = Call("restore_database", << file >>, "Failed", "error", FALSE, "copy")
     ELSE /\ conn' = "open"
          /\ db' = FileStore(file)
          /\ work' = db'
          /\ inTxn' = FALSE
          /\ last' = Call("restore_database", << file >>, "Restored", "none", FALSE, "none")

\* removeOk: os.remove returned; then self.db = DatabaseManager()
erase_database_Keep(confirm, removeOk) ==
  /\ IF ~confirm
     THEN /\ untouched
          /\ last' = Call("erase_database", << >>, "Declined", "none", FALSE, "none")
     ELSE /\ conn' = "open"
          /\ db' = _create_tables(db)
          /\ work' = db'
          /\ inTxn' = FALSE
          /\ last' = Call("erase_database", << >>,
                          IF removeOk THEN "Erased" ELSE "Failed",
                          IF removeOk THEN "none" ELSE "error", FALSE,
                          IF removeOk THEN "none" ELSE "remove")

erase_database(confirm, removeOk) ==
  /\ IF ~confirm
     THEN /\ untouched
          /\ last' = Call("erase_database", << >>, "Declined", "none", FALSE, "none")
     ELSE IF ~removeOk
     THEN /\ conn' = "open"
          /\ work' = db
          /\ db' = db
          /\ inTxn' = FALSE
          /\ last' = Call("erase_database", << >>, "Failed", "error", FALSE, "remove")
     ELSE /\ conn' = "open"
          /\ db' = _create_tables(EmptyStore)
          /\ work' = db'
          /\ inTxn' = FALSE
          /\ last' = Call("erase_database", << >>, "Erased", "none", FALSE, "none")

\* The BEGIN is outside the inner try; the inner handler catches sqlite3.Error
\* only, so the IndexError of cat[1] on a one-column categories row reaches
\* the outer handler without a rollback.  fault names the table whose first
\* INSERT raises a sqlite3.Error.
import_database(confirm, file, fault) ==
  LET s1 == ImportExpenses(work, file)
      s2 == ImportIncome(s1, file)
      s3 == ImportCategories(s2, file)
      s4 == ImportBudgets(s3, file)
  IN
  /\ conn' = conn
  /\ IF ~confirm
     THEN /\ UNCHANGED << inTxn, db, work >>
          /\ last' = Call("import_database", << >>, "Declined", "none", FALSE, "none")
     ELSE IF file = NoFile
     THEN /\ UNCHANGED << inTxn, db, work >>
          /\ last' = Call("import_database", << >>, "Cancelled", "none", FALSE, "none")
     ELSE IF ~file.readable
     THEN /\ UNCHANGED << inTxn, db, work >>
          /\ last' = Call("import_database", << file >>, "Failed", "error", FALSE, "read")
     ELSE IF conn # "open" \/ inTxn
     THEN /\ UNCHANGED << inTxn, db, work >>
          /\ last' = Call("import_database", << file >>, "Failed", "error", FALSE, "begin")
     ELSE IF fault = "expenses" /\ file.expenses # {}
     THEN /\ conn_rollback(work)
          /\ last' = Call("import_database", << file >>, "Failed", "error", FALSE, fault)
     ELSE IF fault = "income" /\ file.income # {}
     THEN /\ conn_rollback(s1)
          /\ last' = Call("import_database", << file >>, "Failed", "error", FALSE, fault)
     ELSE IF file.categories # << >> /\ file.catCols < 2
     THEN /\ work' = s2
          /\ db' = db
          /\ inTxn' = TRUE
          /\ last' = Call("import_database", << file >>, "Failed", "error", FALSE, "IndexError")
     ELSE IF fault = "categories" /\ file.categories # << >>
     THEN /\ conn_rollback(s2)
          /\ last' = Call("import_database", << file >>, "Failed", "error", FALSE, fault)
     ELSE IF fault = "budgets" /\ file.budgets # {}
     THEN /\ conn_rollback(s3)
          /\ last' = Call("import_database", << file >>, "Failed", "error", FALSE, fault)
     ELSE /\ conn_commit(s4)
          /\ last' = Call("import_database", << file >>, "Imported", "none", FALSE, "none")

(* ------------------ ExpenseTrackerApp: form handlers -------------------- *)
\* _validate_numeric_input(P), the key validator of the three amount
\* entries: P == "" or P with its first '.' removed is all digits
\* (str.isdigit, which also accepts digits such as the superscript two)
TypedStrings == { "", "0", "250", "²", "-5", "abc" }

_validate_numeric_input(P) == P \in { "", "0", "250", "²" }

\* what an amount entry can hold
AmountStrings == { P \in TypedStrings : _validate_numeric_input(P) }

\* float(amount_str): the value, or ValueError
float_raises(amount_str) == amount_str \notin { "0", "250", "-5" }

float(amount_str) ==
  CASE amount_str = "0" -> 0
    [] amount_str = "250" -> 250
    [] amount_str = "-5" -> 0 - 5

\* the expense category combobox is editable (state="normal"): any text
CategoryTexts == CatNames \cup { "" }
SourceTexts == Sources \cup { "" }

\* the read-only month and year selectors of the budget tab
MonthChoices == { "", "01", "02" }
YearChoices == { "", "2025" }

\* f"{selected_year}-{selected_month}"
month_year_to_set(selected_year, selected_month) ==
  CASE selected_year = "2025" /\ selected_month = "01" -> "2025-01"
    [] selected_year = "2025" /\ selected_month = "02" -> "2025-02"

\* `if not category` / `if not amount_str`: a mandatory field is empty
missing_Never(field) == FALSE

missing(field) == field = ""

\* `if amount <= 0`
not_positive_Never(amount) == FALSE

not_positive(amount) == amount <= 0

Event(handler, fields) == [ handler |-> handler, fields |-> fields ]

\* the handler shows a message and returns before any DatabaseManager call
Rejected(handler, why) ==
  /\ untouched
  /\ last' = Call(handler, << >>, "Rejected", why, FALSE, "none")

\* clear_expense_entries(): the button is set back to Add Expense, Cancel
\* Edit is hidden, selected_expense_id = None
clear_expense_entries ==
  /\ selected_expense_id' = 0
  /\ add_update_expense_button' = "add_expense_gui"
  /\ cancel_expense_edit_button' = FALSE
  /\ edited_expense' = NoRow

clear_income_entries ==
  /\ selected_income_id' = 0
  /\ add_update_income_button' = "add_income_gui"
  /\ cancel_income_edit_button' = FALSE

add_expense_gui(date, category, amount_str, description, fault) ==
  /\ event' = Event("add_expense_gui", << category, amount_str, description >>)
  /\ UNCHANGED income_form
  /\ IF missing(category) \/ missing(amount_str)
     THEN /\ Rejected("add_expense_gui", "required")
          /\ UNCHANGED expense_form
     ELSE IF float_raises(amount_str)
     THEN /\ Rejected("add_expense_gui", "invalid")
          /\ UNCHANGED expense_form
     ELSE IF not_positive(float(amount_str))
     THEN /\ Rejected("add_expense_gui", "positive")
          /\ UNCHANGED expense_form
     ELSE /\ add_expense(date, category, float(amount_str), description, fault)
          /\ IF last'.ret = "True"
             THEN clear_expense_entries
             ELSE UNCHANGED expense_form

\* selection: the id of the row selected in expense_tree (0: no selection);
\* the tree shows the rows fetched by the last refresh
edit_expense_gui(selection) ==
  /\ event' = Event("edit_expense_gui", << selection >>)
  /\ UNCHANGED income_form
  /\ IF selection = 0
     THEN /\ Rejected("edit_expense_gui", "selection")
          /\ UNCHANGED expense_form
     ELSE IF selection = Placeholder
     THEN /\ untouched
          /\ last' = Call("edit_expense_gui", << selection >>, "ValueError",
                          "none", TRUE, "none")
          /\ selected_expense_id' = selection
          /\ UNCHANGED << add_update_expense_button, cancel_expense_edit_button,
                          edited_expense >>
     ELSE /\ untouched
          /\ last' = Call("edit_expense_gui", << selection >>, "Editing", "none",
                          FALSE, "none")
          /\ selected_expense_id' = selection
          /\ add_update_expense_button' = "update_expense_gui"
          /\ cancel_expense_edit_button' = TRUE
          /\ edited_expense' = CHOOSE r \in work.expenses : r.id = selection

update_expense_gui(date, category, amount_str, description, confirm, fault) ==
  /\ event' = Event("update_expense_gui", << category, amount_str, description >>)
  /\ UNCHANGED income_form
  /\ IF selected_expense_id = 0
     THEN /\ Rejected("update_expense_gui", "selection")
          /\ UNCHANGED expense_form
     ELSE IF missing(category) \/ missing(amount_str)
     THEN /\ Rejected("update_expense_gui", "required")
          /\ UNCHANGED expense_form
     ELSE IF float_raises(amount_str)
     THEN /\ Rejected("update_expense_gui", "invalid")
          /\ UNCHANGED expense_form
     ELSE IF not_positive(float(amount_str))
     THEN /\ Rejected("update_expense_gui", "positive")
          /\ UNCHANGED expense_form
     ELSE IF ~confirm
     THEN /\ untouched
          /\ last' = Call("update_expense_gui", << >>, "Declined", "none",
                          FALSE, "none")
          /\ clear_expense_entries
     ELSE /\ update_expense(selected_expense_id, date, category,
                            float(amount_str), description, fault)
          /\ IF last'.ret = "True"
             THEN clear_expense_entries
             ELSE UNCHANGED expense_form

\* delete_expense_gui: selection as in edit_expense_gui
delete_expense_gui(selection, confirm, fault) ==
  /\ event' = Event("delete_expense_gui", << selection >>)
  /\ UNCHANGED income_form
  /\ IF selection = 0
     THEN /\ Rejected("delete_expense_gui", "selection")
          /\ UNCHANGED expense_form
     ELSE IF ~confirm
     THEN /\ untouched
          /\ last' = Call("delete_expense_gui", << >>, "Declined", "none",
                          FALSE, "none")
          /\ UNCHANGED expense_form
     ELSE /\ delete_expense(selection, fault)
          /\ IF last'.ret = "True"
             THEN clear_expense_entries
             ELSE UNCHANGED expense_form

add_income_gui(date, source, amount_str, description, fault) ==
  /\ event' = Event("add_income_gui", << source, amount_str, description >>)
  /\ UNCHANGED expense_form
  /\ IF missing(source) \/ missing(amount_str)
     THEN /\ Rejected("add_income_gui", "required")
          /\ UNCHANGED income_form
     ELSE IF float_raises(amount_str)
     THEN /\ Rejected("add_income_gui", "invalid")
          /\ UNCHANGED income_form
     ELSE IF not_positive(float(amount_str))
     THEN /\ Rejected("add_income_gui", "positive")
          /\ UNCHANGED income_form
     ELSE /\ add_income(date, source, float(amount_str), description, fault)
          /\ IF last'.ret = "True"
             THEN clear_income_entries
             ELSE UNCHANGED income_form

edit_income_gui(selection) ==
  /\ event' = Event("edit_income_gui", << selection >>)
  /\ UNCHANGED expense_form
  /\ IF selection = 0
     THEN /\ Rejected("edit_income_gui", "selection")
          /\ UNCHANGED income_form
     ELSE IF selection = Placeholder
     THEN /\ untouched
          /\ last' = Call("edit_income_gui", << selection >>, "ValueError",
                          "none", TRUE, "none")
          /\ selected_income_id' = selection
          /\ UNCHANGED << add_update_income_button, cancel_income_edit_button >>
     ELSE /\ untouched
          /\ last' = Call("edit_income_gui", << selection >>, "Editing", "none",
                          FALSE, "none")
          /\ selected_income_id' = selection
          /\ add_update_income_button' = "update_income_gui"
          /\ cancel_income_edit_button' = TRUE

update_income_gui(date, source, amount_str, description, confirm, fault) ==
  /\ event' = Event("update_income_gui", << source, amount_str, description >>)
  /\ UNCHANGED expense_form
  /\ IF selected_income_id = 0
     THEN /\ Rejected("update_income_gui", "selection")
          /\ UNCHANGED income_form
     ELSE IF missing(source) \/ missing(amount_str)
     THEN /\ Rejected("update_income_gui", "required")
          /\ UNCHANGED income_form
     ELSE IF float_raises(amount_str)
     THEN /\ Rejected("update_income_gui", "invalid")
          /\ UNCHANGED income_form
     ELSE IF not_positive(float(amount_str))
     THEN /\ Rejected("update_income_gui", "positive")
          /\ UNCHANGED income_form
     ELSE IF ~confirm
     THEN /\ untouched
          /\ last' = Call("update_income_gui", << >>, "Declined", "none",
                          FALSE, "none")
          /\ clear_income_entries
     ELSE /\ update_income(selected_income_id, date, source,
                           float(amount_str), description, fault)
          /\ IF last'.ret = "True"
             THEN clear_income_entries
             ELSE UNCHANGED income_form

set_budget_gui(selected_month, selected_year, budget_amount_str, fault) ==
  /\ event' = Event("set_budget_gui",
                    << selected_month, selected_year, budget_amount_str >>)
  /\ UNCHANGED << expense_form, income_form >>
  /\ IF missing(selected_month) \/ missing(selected_year)
     THEN Rejected("set_budget_gui", "required")
     ELSE IF missing(budget_amount_str)
     THEN Rejected("set_budget_gui", "required")
     ELSE IF float_raises(budget_amount_str)
     THEN Rejected("set_budget_gui", "invalid")
     ELSE IF float(budget_amount_str) < 0
     THEN Rejected("set_budget_gui", "negative")
     ELSE set_monthly_budget(month_year_to_set(selected_year, selected_month),
                             float(budget_amount_str), fault)

(* ----------------- ExpenseTrackerApp: category manager ------------------ *)
\* category_tree_mgr shows get_categories() as of the last refresh; every
\* call that changes the table refreshes it.  selection "" : no row selected.
add_category_gui_mgr(category_name, fault) ==
  /\ event' = Event("add_category_gui_mgr", << category_name >>)
  /\ UNCHANGED << expense_form, income_form >>
  /\ IF missing(category_name)
     THEN Rejected("add_category_gui_mgr", "required")
     ELSE add_category(category_name, fault)

edit_category_gui_mgr(selection, new_category_name, confirm, fault) ==
  /\ event' = Event("edit_category_gui_mgr", << selection, new_category_name >>)
  /\ UNCHANGED << expense_form, income_form >>
  /\ IF selection = ""
     THEN Rejected("edit_category_gui_mgr", "selection")
     ELSE IF missing(new_category_name)
     THEN Rejected("edit_category_gui_mgr", "required")
     ELSE IF new_category_name = selection
     THEN Rejected("edit_category_gui_mgr", "same")
     ELSE IF ~confirm
     THEN /\ untouched
          /\ last' = Call("edit_category_gui_mgr", << >>, "Declined", "none",
                          FALSE, "none")
     ELSE update_category(selection, new_category_name, fault)

delete_category_gui_mgr(selection, confirm, fault) ==
  /\ event' = Event("delete_category_gui_mgr", << selection >>)
  /\ UNCHANGED << expense_form, income_form >>
  /\ IF selection = ""
     THEN Rejected("delete_category_gui_mgr", "selection")
     ELSE IF ~confirm
     THEN /\ untouched
          /\ last' = Call("delete_category_gui_mgr", << >>, "Declined", "none",
                          FALSE, "none")
     ELSE delete_category(selection, fault)

(* ------------------------------ the system ------------------------------ *)
Faults == { "none", "stmt1" }
CategoryFaults == { "none", "stmt1", "stmt2" }
ImportFaults == { "none", "expenses", "income", "categories", "budgets" }

\* the faults that stand for a sqlite3.Error raised by the store itself
Injected == { "stmt1", "stmt2", "expenses", "income", "categories", "budgets" }

\* the history variables, updated from the call just made
Track ==
  /\ budgetSet' =
       IF last'.op = "set_monthly_budget" /\ last'.ret = "True"
       THEN [ budgetSet EXCEPT ![last'.args[1]] = last'.args[2] ]
       ELSE IF last'.ret \in { "Imported", "Restored", "Erased" }
       THEN [ m \in Months |-> -1 ]
       ELSE budgetSet
  /\ storeErrors' = (storeErrors \/ last'.fault \in Injected)

\* a call made on the DatabaseManager itself, or a handler that reads no
\* entry field: the form state is left alone
Direct ==
  /\ event' = NoEvent
  /\ UNCHANGED << expense_form, income_form >>

AddExpense ==
  \E d \in Dates, c \in CatNames, a \in Amounts, t \in Descriptions, f \in Faults :
    /\ work.seqE < MaxExpenseId
    /\ last = Idle
    /\ add_expense(d, c, a, t, f)
    /\ Track
    /\ Direct

\* add_expense with the dates and descriptions the list filters tell apart
FetchDescriptions == { "Lunch", "" }

AddDatedExpense ==
  \E d \in FetchDates, c \in DefaultNames, a \in Amounts, t \in FetchDescriptions :
    /\ work.seqE < MaxExpenseId
    /\ last = Idle
    /\ add_expense(d, c, a, t, "none")
    /\ Track
    /\ Direct

\* the dates, category texts and amounts of the expenses that are charted:
\* two years with a common month, categories that differ only in letter
\* case, a category called 'Other', and amounts below, at and above 2% of a
\* total
ChartDates == { "2024-01-20", "2025-01-10", "2025-02-01" }
ChartCategories == { "Food", "fOOD", "Other" }
ChartAmounts == { 1, 49, 100 }

AddChartExpense ==
  \E d \in ChartDates, c \in ChartCategories, a \in ChartAmounts :
    /\ work.seqE < MaxExpenseId
    /\ last = Idle
    /\ add_expense(d, c, a, "", "none")
    /\ Track
    /\ Direct

\* expenses of the two budgeted months, of amounts below and at a budget of
\* 1000
BudgetedDates == { "2025-01-10", "2025-02-01" }
BudgetedAmounts == { 400, 1000 }

AddBudgetedExpense ==
  \E d \in BudgetedDates, a \in BudgetedAmounts :
    /\ work.seqE < MaxExpenseId
    /\ last = Idle
    /\ add_expense(d, "Food", a, "", "none")
    /\ Track
    /\ Direct

UpdateExpenseRow ==
  \E i \in ExpenseIds, d \in Dates, c \in CatNames, a \in Amounts,
     t \in Descriptions, f \in Faults :
    /\ last = Idle
    /\ update_expense(i, d, c, a, t, f)
    /\ Track
    /\ Direct

DeleteExpenseRow ==
  \E i \in ExpenseIds, f \in Faults :
    /\ last = Idle
    /\ delete_expense(i, f)
    /\ Track
    /\ Direct

UpdateIncomeRow ==
  \E i \in IncomeIds, d \in Dates, c \in Sources, a \in Amounts,
     t \in Descriptions, f \in Faults :
    /\ last = Idle
    /\ update_income(i, d, c, a, t, f)
    /\ Track
    /\ Direct

AddIncome ==
  \E d \in Dates, c \in Sources, a \in Amounts, t \in Descriptions, f \in Faults :
    /\ work.seqI < MaxIncomeId
    /\ last = Idle
    /\ add_income(d, c, a, t, f)
    /\ Track
    /\ Direct

\* income whose source is also the name of a category
AddNamedIncome ==
  \E d \in Dates, c \in DefaultNames, a \in Amounts :
    /\ work.seqI < MaxIncomeId
    /\ last = Idle
    /\ add_income(d, c, a, "", "none")
    /\ Track
    /\ Direct

SetMonthlyBudget ==
  \E m \in Months, a \in BudgetAmounts, f \in Faults :
    /\ work.seqB < MaxBudgetId
    /\ last = Idle
    /\ set_monthly_budget(m, a, f)
    /\ Track
    /\ Direct

AddCategory ==
  \E n \in CatNames, f \in Faults :
    /\ last = Idle
    /\ add_category(n, f)
    /\ Track
    /\ Direct

UpdateCategory ==
  \E old \in CatNames, new \in CatNames, f \in CategoryFaults :
    /\ last = Idle
    /\ update_category(old, new, f)
    /\ Track
    /\ Direct

DeleteCategory ==
  \E n \in CatNames, f \in CategoryFaults :
    /\ last = Idle
    /\ delete_category(n, f)
    /\ Track
    /\ Direct

Backup ==
  \E path \in BOOLEAN, copyOk \in BOOLEAN :
    /\ last = Idle
    /\ backup_database(path, copyOk)
    /\ Track
    /\ Direct

Restore ==
  \E confirm \in BOOLEAN, file \in RestoreFiles \cup { NoFile }, copyOk \in BOOLEAN :
    /\ last = Idle
    /\ restore_database(confirm, file, copyOk)
    /\ Track
    /\ Direct

Import ==
  \E confirm \in BOOLEAN, file \in ExternalFiles \cup { NoFile }, f \in ImportFaults :
    /\ last = Idle
    /\ import_database(confirm, file, f)
    /\ Track
    /\ Direct

Erase ==
  \E confirm \in BOOLEAN, removeOk \in BOOLEAN :
    /\ last = Idle
    /\ erase_database(confirm, removeOk)
    /\ Track
    /\ Direct

\* the application is closed and started again: a new ExpenseTrackerApp
Startup ==
  /\ last = Idle
  /\ __init__
  /\ Track
  /\ event' = NoEvent
  /\ clear_expense_entries
  /\ clear_income_entries

\* ---- the handlers behind the buttons of the forms ----
\* the rows a tree shows: what the last refresh fetched
ExpenseTreeIds == IF conn = "open" THEN { r.id : r \in work.expenses } ELSE {}
IncomeTreeIds == IF conn = "open" THEN { r.id : r \in work.income } ELSE {}
CategoryTreeNames == get_categories

\* what expense_tree.selection() / income_tree.selection() can name: a row
\* of the tree, or the placeholder row that an empty tree holds
ExpenseTreeSelections ==
  IF ExpenseTreeIds = {} THEN { Placeholder } ELSE ExpenseTreeIds

IncomeTreeSelections ==
  IF IncomeTreeIds = {} THEN { Placeholder } ELSE IncomeTreeIds

AddExpenseGui ==
  \E d \in Dates, c \in CategoryTexts, a \in AmountStrings, t \in Descriptions,
     f \in Faults :
    /\ work.seqE < MaxFormRows
    /\ last = Idle
    /\ add_update_expense_button = "add_expense_gui"
    /\ add_expense_gui(d, c, a, t, f)
    /\ Track

EditExpenseGui ==
  \E sel \in ExpenseTreeSelections \cup { 0 } :
    /\ last = Idle
    /\ edit_expense_gui(sel)
    /\ Track

UpdateExpenseGui ==
  \E d \in Dates, c \in CategoryTexts, a \in AmountStrings, t \in Descriptions,
     confirm \in BOOLEAN, f \in Faults :
    /\ last = Idle
    /\ add_update_expense_button = "update_expense_gui"
    /\ update_expense_gui(d, c, a, t, confirm, f)
    /\ Track

DeleteExpenseGui ==
  \E sel \in ExpenseTreeSelections \cup { 0 }, confirm \in BOOLEAN, f \in Faults :
    /\ last = Idle
    /\ delete_expense_gui(sel, confirm, f)
    /\ Track

AddIncomeGui ==
  \E d \in Dates, c \in SourceTexts, a \in AmountStrings, t \in Descriptions,
     f \in Faults :
    /\ work.seqI < MaxFormRows
    /\ last = Idle
    /\ add_update_income_button = "add_income_gui"
    /\ add_income_gui(d, c, a, t, f)
    /\ Track

EditIncomeGui ==
  \E sel \in IncomeTreeSelections \cup { 0 } :
    /\ last = Idle
    /\ edit_income_gui(sel)
    /\ Track

UpdateIncomeGui ==
  \E d \in Dates, c \in SourceTexts, a \in AmountStrings, t \in Descriptions,
     confirm \in BOOLEAN, f \in Faults :
    /\ last = Idle
    /\ add_update_income_button = "update_income_gui"
    /\ update_income_gui(d, c, a, t, confirm, f)
    /\ Track

SetBudgetGui ==
  \E m \in MonthChoices, y \in YearChoices, a \in AmountStrings, f \in Faults :
    /\ work.seqB < MaxBudgetId
    /\ last = Idle
    /\ set_budget_gui(m, y, a, f)
    /\ Track

AddCategoryGui ==
  \E n \in CategoryTexts, f \in Faults :
    /\ last = Idle
    /\ add_category_gui_mgr(n, f)
    /\ Track

EditCategoryGui ==
  \E sel \in CategoryTreeNames \cup { "" }, new \in CategoryTexts,
     confirm \in BOOLEAN, f \in CategoryFaults :
    /\ last = Idle
    /\ edit_category_gui_mgr(sel, new, confirm, f)
    /\ Track

DeleteCategoryGui ==
  \E sel \in CategoryTreeNames \cup { "" }, confirm \in BOOLEAN,
     f \in CategoryFaults :
    /\ last = Idle
    /\ delete_category_gui_mgr(sel, confirm, f)
    /\ Track

\* root.mainloop(): the handler has returned, the next event is awaited
Mainloop ==
  /\ last # Idle
  /\ last' = Idle
  /\ event' = NoEvent
  /\ UNCHANGED << conn, inTxn, db, work, budgetSet, storeErrors,
                  expense_form, income_form >>

\* the category operations of the data-access layer
NextCategory ==
  \/ AddExpense
  \/ AddCategory
  \/ UpdateCategory
  \/ DeleteCategory
  \/ Backup
  \/ Mainloop

Spec == Init /\ [][NextCategory]_vars

\* the handlers that close and reopen the connection
NextConnection ==
  \/ Backup
  \/ Restore
  \/ Erase
  \/ AddExpense
  \/ DeleteCategory
  \/ Mainloop

SpecConnection == Init /\ [][NextConnection]_vars

\* import into a store that holds rows
NextImport ==
  \/ Import
  \/ AddExpense
  \/ AddIncome
  \/ AddCategory
  \/ Mainloop

SpecImport == Init /\ [][NextImport]_vars

\* budgets, and everything that replaces or merges the store
NextBudget ==
  \/ SetMonthlyBudget
  \/ Import
  \/ Restore
  \/ Erase
  \/ Backup
  \/ Mainloop

SpecBudget == Init /\ [][NextBudget]_vars

\* everything that writes the Category table
NextCategoryTable ==
  \/ AddCategory
  \/ UpdateCategory
  \/ DeleteCategory
  \/ Import
  \/ Erase
  \/ Mainloop

SpecCategoryTable == Init /\ [][NextCategoryTable]_vars

\* the forms of the expense, income and budget tabs
NextForms ==
  \/ AddExpenseGui
  \/ EditExpenseGui
  \/ UpdateExpenseGui
  \/ AddIncomeGui
  \/ EditIncomeGui
  \/ UpdateIncomeGui
  \/ SetBudgetGui
  \/ Mainloop

SpecForms == Init /\ [][NextForms]_vars

\* the expense form and the category manager
NextExpenseCategory ==
  \/ AddExpenseGui
  \/ EditExpenseGui
  \/ UpdateExpenseGui
  \/ AddCategoryGui
  \/ EditCategoryGui
  \/ DeleteCategoryGui
  \/ Mainloop

SpecExpenseCategory == Init /\ [][NextExpenseCategory]_vars

\* the row updates of the data-access layer, on a store that holds rows
NextUpdate ==
  \/ AddExpense
  \/ UpdateExpenseRow
  \/ AddIncome
  \/ UpdateIncomeRow
  \/ AddCategory
  \/ Mainloop

SpecUpdate == Init /\ [][NextUpdate]_vars

\* the Expense rows the list of the expenses tab is fetched from
NextFetch ==
  \/ AddDatedExpense
  \/ Mainloop

SpecFetch == Init /\ [][NextFetch]_vars

\* start-up on the stores the program and its restore can leave behind
NextStartup ==
  \/ Startup
  \/ Restore
  \/ DeleteCategory
  \/ AddExpense
  \/ Mainloop

SpecStartup == Init /\ [][NextStartup]_vars

\* the three destructive handlers of the data-management tab, over a store
\* that holds rows
NextDataManagement ==
  \/ Restore
  \/ Import
  \/ Erase
  \/ AddExpense
  \/ Mainloop

SpecDataManagement == Init /\ [][NextDataManagement]_vars

\* the store the analytics tab and the summary panels read
NextCharts ==
  \/ AddChartExpense
  \/ Mainloop

SpecCharts == Init /\ [][NextCharts]_vars

\* budgets and the expenses they are compared with
NextBudgetStatus ==
  \/ SetMonthlyBudget
  \/ AddBudgetedExpense
  \/ Mainloop

SpecBudgetStatus == Init /\ [][NextBudgetStatus]_vars

\* an edit of an expense, and the handlers that can run between Edit and
\* Save Changes
NextEditSession ==
  \/ AddExpenseGui
  \/ EditExpenseGui
  \/ UpdateExpenseGui
  \/ DeleteExpenseGui
  \/ DeleteCategoryGui
  \/ Import
  \/ Erase
  \/ Mainloop

SpecEditSession == Init /\ [][NextEditSession]_vars

\* renaming and deleting categories over a store that holds Expense, Income
\* and Budget rows, some of them imported
NextCategoryFrame ==
  \/ AddExpense
  \/ Import
  \/ AddNamedIncome
  \/ UpdateCategory
  \/ DeleteCategory
  \/ Mainloop

SpecCategoryFrame == Init /\ [][NextCategoryFrame]_vars

(* ------------------------------ properties ------------------------------ *)
\* the expense rows after every row of category a has been given category b
Recategorised(rows, a, b) ==
  { IF r.category = a THEN [ r EXCEPT !.category = b ] ELSE r : r \in rows }

\* C1: update_category(A, B) with A a Category row and B a different name
\* that is not a Category row returns True; afterwards get_categories()
\* holds B and not A, the Expense rows that carried A carry B, and no other
\* Expense row changed.  (Stated for an open connection and a run in which
\* the store has raised no error.)
C1_RenameCascades ==
  [][ ( /\ last'.op = "update_category"
        /\ last = Idle
        /\ ~storeErrors'
        /\ conn = "open"
        /\ last'.args[1] # last'.args[2]
        /\ work.categories[last'.args[1]] > 0
        /\ work.categories[last'.args[2]] = 0 )
      => ( /\ last'.ret = "True"
           /\ last'.args[2] \in get_categories'
           /\ last'.args[1] \notin get_categories'
           /\ work'.expenses =
                Recategorised(work.expenses, last'.args[1], last'.args[2]) )
    ]_vars

\* C2: update_category(A, B) with B different from A and B already a
\* Category row returns False, reports a duplicate, and leaves the Category
\* table and every Expense row as they were, also when A is carried by
\* Expense rows without being a Category row.  (Stated for an open
\* connection with no transaction pending, in a run in which the store has
\* raised no error.)
C2_RenameOntoExistingRejected ==
  [][ ( /\ last'.op = "update_category"
        /\ last = Idle
        /\ ~storeErrors'
        /\ conn = "open"
        /\ ~inTxn
        /\ last'.args[1] # last'.args[2]
        /\ work.categories[last'.args[2]] > 0
        /\ \E r \in work.expenses : r.category = last'.args[1] )
      => ( /\ last'.ret = "False"
           /\ last'.report = "duplicate"
           /\ work'.categories = work.categories
           /\ work'.expenses = work.expenses
           /\ db' = db )
    ]_vars

\* C3: after delete_category(N) no Category row is named N, the Expense rows
\* that carried N carry 'Uncategorized', every other Expense row is
\* unchanged and no Expense row is deleted.  (Stated for an open connection
\* and a run in which the store has raised no error.)
C3_DeleteReassigns ==
  [][ ( /\ last'.op = "delete_category"
        /\ last = Idle
        /\ ~storeErrors'
        /\ conn = "open" )
      => ( /\ work'.categories[last'.args[1]] = 0
           /\ work'.expenses =
                Recategorised(work.expenses, last'.args[1], Uncategorized)
           /\ Cardinality(work'.expenses) = Cardinality(work.expenses) )
    ]_vars

\* C4: when a statement of update_category or delete_category raises a store
\* error, the call returns False, the file is as it was before the call, and
\* the connection reads exactly the file: no half-applied change is visible.
C4_AllOrNothing ==
  [][ ( /\ last'.op \in { "update_category", "delete_category" }
        /\ last = Idle
        /\ last'.fault \in Injected )
      => ( /\ last'.ret = "False"
           /\ db' = db
           /\ work' = db
           /\ ~inTxn' )
    ]_vars

\* the second statement of delete_category failed after the first one had
\* rows to rewrite
C4_Witness ==
  /\ last.op = "delete_category"
  /\ last.fault = "stmt2"
  /\ last.ret = "False"
  /\ work.categories[last.args[1]] > 0
  /\ \E r \in work.expenses : r.category = last.args[1]

\* C5: no DatabaseManager operation raises: each returns its failure
\* indicator, whatever the state of the connection.
C5_NoExceptionEscapes == ~last.raised

\* C6: after backup_database, restore_database or erase_database returns,
\* the DatabaseManager holds an open connection, so every later call runs on
\* an open connection.
C6_ConnectionOpen == conn = "open"

\* C7: an import_database that fails, at whatever step, leaves none of the
\* imported rows in the live store: what the connection reads and what the
\* file holds are as before the call.
C7_FailedImportInvisible ==
  [][ ( /\ last'.op = "import_database"
        /\ last = Idle
        /\ last'.ret = "Failed" )
      => ( /\ work' = work
           /\ db' = db )
    ]_vars

\* the names of a fetched categories table
FileCategoryNames(f) == { f.categories[i] : i \in DOMAIN f.categories }

\* C8: after a successful import_database every imported Expense, Income and
\* Budget row is in the live store under its id with its values; live
\* Expense and Income rows with other ids are unchanged; the Category names
\* are the union of the previous and the imported names, and every previous
\* Category row is unchanged.
C8_ImportMerges ==
  [][ ( /\ last'.op = "import_database"
        /\ last = Idle
        /\ last'.ret = "Imported" )
      => LET f == last'.args[1] IN
         /\ f.expenses \subseteq work'.expenses
         /\ f.income \subseteq work'.income
         /\ f.budgets \subseteq work'.budgets
         /\ \A r \in work'.expenses : \A q \in f.expenses : r.id = q.id => r = q
         /\ \A r \in work'.income : \A q \in f.income : r.id = q.id => r = q
         /\ \A r \in work'.budgets : \A q \in f.budgets : r.id = q.id => r = q
         /\ \A r \in work.expenses :
              (\A q \in f.expenses : q.id # r.id) => r \in work'.expenses
         /\ \A r \in work.income :
              (\A q \in f.income : q.id # r.id) => r \in work'.income
         /\ { n \in CatNames : work'.categories[n] > 0 }
              = { n \in CatNames : work.categories[n] > 0 } \cup FileCategoryNames(f)
         /\ \A n \in CatNames :
              work.categories[n] > 0 => work'.categories[n] = work.categories[n]
         /\ db' = work'
    ]_vars

\* a file with rows was imported into a store that holds an Expense row of
\* its own under another id and a Category the file does not name
C8_Witness ==
  /\ last.op = "import_database"
  /\ last.ret = "Imported"
  /\ last.args[1].expenses # {}
  /\ last.args[1].budgets # {}
  /\ \E r \in work.expenses : r \notin last.args[1].expenses
  /\ \E r \in work.expenses : r \in last.args[1].expenses
  /\ \E n \in CatNames :
       work.categories[n] > 0 /\ n \notin FileCategoryNames(last.args[1])

\* the amount of the Budget row of a month in store s (-1: no row)
BudgetAmount(s, month_year) ==
  IF BudgetRows(s, month_year) = {} THEN -1
  ELSE (CHOOSE r \in BudgetRows(s, month_year) : TRUE).budget_amount

\* the call just made is a successful set_monthly_budget of month m
BudgetWasSet(m) ==
  /\ last'.op = "set_monthly_budget"
  /\ last = Idle
  /\ last'.ret = "True"
  /\ last'.args[1] = m

\* C9 as claimed: once set_monthly_budget(m, x) has succeeded,
\* get_monthly_budget(m) returns x after every later operation other than a
\* successful set_monthly_budget(m, .).  (Stated for an open connection.)
C9_LatestSetSurvives ==
  [][ \A m \in Months :
        ( /\ budgetSet[m] # -1
          /\ ~BudgetWasSet(m)
          /\ conn' = "open" )
        => get_monthly_budget(m)' = budgetSet[m]
    ]_vars

\* C9 amended: the Budget table holds at most one row per month_year; after
\* a successful set_monthly_budget(m, x) the Budget row of m holds x, and
\* get_monthly_budget(m) on an open connection returns x, until the next
\* successful set_monthly_budget(m, .) or the next completed import, restore
\* or erase; and setting month m leaves the rows of every other month as
\* they were.
C9_BudgetPerMonth ==
  [][ /\ \A m \in Months : Cardinality(BudgetRows(work', m)) <= 1
      /\ \A m \in Months :
           budgetSet'[m] # -1
           => /\ BudgetAmount(work', m) = budgetSet'[m]
              /\ BudgetAmount(db', m) = budgetSet'[m]
              /\ (conn' = "open" => get_monthly_budget(m)' = budgetSet'[m])
      /\ \A m \in Months :
           BudgetWasSet(m)
           => \A other \in Months \ { m } :
                BudgetRows(work', other) = BudgetRows(work, other)
    ]_vars

\* set_monthly_budget has just succeeded for the current month with a
\* non-zero amount that get_monthly_budget reads back, while another month
\* has a row of its own
C9_Witness ==
  /\ last.op = "set_monthly_budget"
  /\ last.ret = "True"
  /\ last.args[1] = CurrentMonth
  /\ last.args[2] # 0
  /\ get_monthly_budget(CurrentMonth) = last.args[2]
  /\ \E m \in Months \ { CurrentMonth } : BudgetRows(work, m) # {}

\* C10: no two Category rows have the same name, in what the connection
\* reads and in the file.
C10_CategoryNamesUnique ==
  \A n \in CatNames : work.categories[n] <= 1 /\ db.categories[n] <= 1

\* an insert of a name that is already a Category row was attempted, by
\* add_category or by the import of a file naming it
C10_Witness ==
  \/ /\ last.op = "add_category"
     /\ last.report = "duplicate"
     /\ work.categories[last.args[1]] = 1
  \/ /\ last.op = "import_database"
     /\ last.ret = "Imported"
     /\ last.args[1].categories # << >>
     /\ \A n \in FileCategoryNames(last.args[1]) : work.categories[n] = 1

\* every amount of store s is in its documented range
AmountsInRange(s) ==
  /\ \A r \in s.expenses : r.amount > 0
  /\ \A r \in s.income : r.amount > 0
  /\ \A b \in s.budgets : b.budget_amount >= 0

C12_ExpenseCategoriesExist ==
  \A r \in work.expenses :
    r.category \in CategoryNames(work) \cup { Uncategorized }

FormHandlers ==
  { "add_expense_gui", "update_expense_gui", "add_income_gui",
    "update_income_gui", "set_budget_gui" }

\* the amount text does not parse, or parses to a value below the bound
BadAmount(amount_str, zeroAllowed) ==
  \/ amount_str = ""
  \/ float_raises(amount_str)
  \/ IF zeroAllowed THEN float(amount_str) < 0 ELSE float(amount_str) <= 0

\* the fields the handler of event e read are not acceptable
InvalidFields(e) ==
  IF e.handler = "set_budget_gui"
  THEN e.fields[1] = "" \/ e.fields[2] = "" \/ BadAmount(e.fields[3], TRUE)
  ELSE e.fields[1] = "" \/ BadAmount(e.fields[2], FALSE)

\* C13: when a mandatory field of the expense, income or budget form is
\* empty, or the amount does not parse as a number, or the amount is <= 0
\* (for a budget: < 0), the handler returns without calling a
\* DatabaseManager method and the store is unchanged.
C13_InvalidInputRejected ==
  [][ ( /\ event'.handler \in FormHandlers
        /\ last = Idle
        /\ InvalidFields(event') )
      => ( /\ last'.ret = "Rejected"
           /\ UNCHANGED << conn, inTxn, db, work >> )
    ]_vars

\* an edit of an existing Expense row was rejected for an amount text that
\* passes the key validator and does not parse
C13_Witness ==
  /\ event.handler = "update_expense_gui"
  /\ event.fields[1] # ""
  /\ event.fields[2] # ""
  /\ float_raises(event.fields[2])
  /\ last.ret = "Rejected"
  /\ \E r \in work.expenses : r.id = selected_expense_id

\* rows' is rows with the row of that id, if there is one, replaced by row
RowOverwritten(rows, rowsAfter, id, row) ==
  /\ \A r \in rows : r.id # id => r \in rowsAfter
  /\ \A r \in rowsAfter : r.id # id => r \in rows
  /\ (\E r \in rows : r.id = id)
       => /\ row \in rowsAfter
          /\ \A r \in rowsAfter : r.id = id => r = row
  /\ (\A r \in rows : r.id # id) => rowsAfter = rows

Range(seq) == { seq[i] : i \in DOMAIN seq }

\* list after holds the rows of list before and one new row made of args,
\* most recent date first
AddedToList(before, after, args) ==
  LET new == Range(after) \ Range(before) IN
  /\ Range(before) \subseteq Range(after)
  /\ Len(after) = Len(before) + 1
  /\ Cardinality(new) = 1
  /\ \A r \in new : << r.date, r.category, r.amount, r.description >> = args
  /\ \A i \in 1..(Len(after) - 1) :
       DateOrder(after[i].date) >= DateOrder(after[i + 1].date)

\* C15: after add_expense(date, category, amount, description) succeeds,
\* fetch_expenses() without filters returns every row it returned before,
\* unchanged, and exactly one new row, whose fields are the arguments; and
\* the list is in non-increasing date order.
C15_AddThenFetch ==
  [][ ( /\ last'.op = "add_expense"
        /\ last = Idle
        /\ last'.ret = "True" )
      => AddedToList(fetch_expenses_where("", "", "", "", "", ""),
                     fetch_expenses_where("", "", "", "", "", "")',
                     last'.args)
    ]_vars

\* an Expense with a later date has just been added to a store that holds
\* an Expense with an earlier date and a smaller id
C15_Witness ==
  /\ last.op = "add_expense"
  /\ last.ret = "True"
  /\ \E r, q \in work.expenses :
       /\ r.id < q.id
       /\ DateOrder(r.date) < DateOrder(q.date)
       /\ << q.date, q.category, q.amount, q.description >> = last.args

\* keyword occurs in text as a substring, letter case aside
Occurs(keyword, text) ==
  \E i \in 0..(Len(text) - Len(keyword)) :
    \A j \in 1..Len(keyword) : lower(keyword[j]) = lower(text[i + j])

\* the rows the claim says a filter set selects
Matches(r, start_date, end_date, category, year, month_year, keyword) ==
  /\ start_date # "" => DateOrder(r.date) >= DateOrder(start_date)
  /\ end_date # "" => DateOrder(r.date) <= DateOrder(end_date)
  /\ (category # "" /\ category # "All Categories") => r.category = category
  /\ year # "" => strftime_Y(r.date) = year
  /\ month_year # "" => strftime_Ym(r.date) = month_year
  /\ keyword # "" => \/ Occurs(Chars(keyword), Chars(r.description))
                     \/ Occurs(Chars(keyword), Chars(r.category))

\* the filter values tried
FilterStarts == { "", "2025-01-10" }
FilterEnds == { "", "2025-01-10" }
FilterCategories == { "", "All Categories", "Food" }
FilterYears == { "", "2025" }
FilterMonths == { "", "2025-01" }
FilterKeywords == { "", "lunch", "_" }

\* C16: fetch_expenses(filters) returns exactly the Expense rows that
\* satisfy every supplied filter: date >= start_date, date <= end_date,
\* category equal to the given one unless it is 'All Categories', year and
\* year-month of the date equal to the given ones, keyword occurring as a
\* substring of the description or of the category; absent and empty
\* filters restrict nothing.
C16_FetchReturnsMatching ==
  last = Idle =>
    \A sd \in FilterStarts, ed \in FilterEnds, c \in FilterCategories,
       y \in FilterYears, m \in FilterMonths, k \in FilterKeywords :
      Range(fetch_expenses_where(sd, ed, c, y, m, k))
        = { r \in work.expenses : Matches(r, sd, ed, c, y, m, k) }

\* C17: add_category(name) on a name that is already a Category row returns
\* False, reports a duplicate (not the generic database error) and leaves
\* the Category table unchanged; on a new name it adds exactly one Category
\* row of that name and returns True.  (Stated for calls on an open
\* connection on which the store raises no other error.)
C17_AddCategoryDuplicate ==
  [][ ( /\ last'.op = "add_category"
        /\ last = Idle
        /\ conn = "open"
        /\ last'.fault = "none" )
      => LET name == last'.args[1] IN
         IF work.categories[name] > 0
         THEN /\ last'.ret = "False"
              /\ last'.report = "duplicate"
              /\ last'.report # "error"
              /\ work'.categories = work.categories
              /\ db'.categories = db.categories
         ELSE /\ last'.ret = "True"
              /\ last'.report = "none"
              /\ work'.categories = [ work.categories EXCEPT ![name] = 1 ]
              /\ db'.categories = work'.categories
    ]_vars

\* a name that add_category or an import had added was offered again and
\* refused as a duplicate
C17_Witness ==
  /\ last.op = "add_category"
  /\ last.args[1] \notin DefaultNames
  /\ last.ret = "False"
  /\ last.report = "duplicate"
  /\ CategoryNames(work) = CatNames

\* C18: on an open connection, in every reachable state of the Budget
\* table, get_monthly_budget(m) returns 0.0 and shows no error for a month
\* without a Budget row, and the row's amount for a month that has one.
C18_BudgetOrZero ==
  conn = "open" =>
    \A m \in Months :
      /\ BudgetRows(work, m) = {}
           => get_monthly_budget(m) = 0 /\ ~get_monthly_budget_error(m)
      /\ \A r \in BudgetRows(work, m) :
           get_monthly_budget(m) = r.budget_amount /\ ~get_monthly_budget_error(m)

\* one month has no Budget row while another month has a row with a
\* non-zero amount
C18_Witness ==
  /\ conn = "open"
  /\ last = Idle
  /\ \E m \in Months : BudgetRows(work, m) = {} /\ get_monthly_budget(m) = 0
  /\ \E m \in Months : \E r \in BudgetRows(work, m) :
       r.budget_amount # 0 /\ get_monthly_budget(m) = r.budget_amount

\* the Budget row start-up seeds
SeededBudget(s) ==
  \E b \in s.budgets :
    /\ s.budgets = { b }
    /\ b.month_year = CurrentMonth
    /\ b.budget_amount = 0

\* C19: start-up on an existing store inserts the default categories only
\* when the Category table is empty and the initial Budget row only when
\* the Budget table is empty; it never changes an Expense or Income row;
\* on a store whose Category and Budget tables are both non-empty it
\* changes nothing; and a second start-up changes nothing the first left.
C19_StartupIdempotent ==
  [][ ( /\ last'.op = "__init__"
        /\ last = Idle )
      => ( /\ work' = db'
           /\ conn' = "open"
           /\ db'.expenses = db.expenses
           /\ db'.income = db.income
           /\ IF CategoryCount(db) = 0
              THEN CategoryNames(db') = DefaultNames
              ELSE db'.categories = db.categories
           /\ IF db.budgets = {}
              THEN SeededBudget(db')
              ELSE db'.budgets = db.budgets
           /\ (CategoryCount(db) > 0 /\ db.budgets # {}) => db' = db
           /\ _create_tables(db') = db' )
    ]_vars

\* start-up has just run on a store that holds an Expense row, a Budget row
\* and a Category table from which a default category has been deleted
C19_Witness ==
  /\ last.op = "__init__"
  /\ db.expenses # {}
  /\ db.budgets # {}
  /\ CategoryCount(db) > 0
  /\ \E n \in DefaultNames : db.categories[n] = 0

\* C20: after a confirmed erase_database has completed, whatever the store
\* held, the live store has no Expense row, no Income row, exactly the
\* default categories and exactly one Budget row (current month, 0.00), in
\* the file and as the connection reads it, and the connection is open.
C20_EraseLeavesFreshStore ==
  [][ ( /\ last'.op = "erase_database"
        /\ last = Idle
        /\ last'.ret = "Erased" )
      => ( /\ conn' = "open"
           /\ ~inTxn'
           /\ work' = db'
           /\ db'.expenses = {}
           /\ db'.income = {}
           /\ \A n \in CatNames :
                db'.categories[n] = IF n \in DefaultNames THEN 1 ELSE 0
           /\ SeededBudget(db') )
    ]_vars

\* erase_database has just completed and left the seeded store behind
C20_Witness ==
  /\ last.op = "erase_database"
  /\ last.ret = "Erased"
  /\ conn = "open"
  /\ work = db
  /\ db.expenses = {}
  /\ CategoryNames(db) = DefaultNames
  /\ SeededBudget(db)

\* the handlers that ask for confirmation before they touch the store
ConfirmedHandlers == { "restore_database", "import_database", "erase_database" }

\* C21: when the confirmation prompt of restore_database, import_database or
\* erase_database is declined, or the file dialog of restore or import is
\* cancelled after confirming, the file, what the connection reads, the open
\* transaction and the connection itself are as before; an open connection
\* is left open.
C21_DeclinedChangesNothing ==
  [][ ( /\ last = Idle
        /\ last'.op \in ConfirmedHandlers
        /\ last'.ret \in { "Declined", "Cancelled" } )
      => ( /\ db' = db
           /\ work' = work
           /\ inTxn' = inTxn
           /\ conn' = conn
           /\ (conn = "open" => conn' = "open") )
    ]_vars

\* the file dialog of restore_database has just been cancelled after the
\* prompt was confirmed, over an open connection and a store holding an
\* Expense row
C21_Witness ==
  /\ last.op = "restore_database"
  /\ last.ret = "Cancelled"
  /\ conn = "open"
  /\ work.expenses # {}
  /\ work = db

\* the amounts of a set of rows, added up
RECURSIVE SumAmounts(_)
SumAmounts(rows) ==
  IF rows = {} THEN 0
  ELSE LET r == CHOOSE r \in rows : TRUE
       IN r.amount + SumAmounts(rows \ { r })

\* two texts that differ at most in the case of their letters
SameButCase(a, b) ==
  /\ Len(Chars(a)) = Len(Chars(b))
  /\ \A i \in 1..Len(Chars(a)) : lower(Chars(a)[i]) = lower(Chars(b)[i])

\* the periods whose rows are totalled: everything, or one month
TotalledPeriods == { "", "2025-01" }

\* C22: for the Expense rows of any period, the category totals keyed by the
\* capitalized category name are such that each group's total is the sum of
\* the amounts of the rows whose capitalized category is the key, rows whose
\* stored categories differ only in letter case are in one group, and the
\* group totals add up to the sum of all row amounts.
C22_CategoryTotals ==
  last = Idle =>
    \A period \in TotalledPeriods :
      LET expenses == fetch_expenses_where("", "", "", "", period, "")
          rows == Range(expenses)
          totals == category_totals(expenses)
      IN /\ DOMAIN totals = { capitalize(r.category) : r \in rows }
         /\ \A k \in DOMAIN totals :
              totals[k] = SumAmounts({ r \in rows : capitalize(r.category) = k })
         /\ \A r, q \in rows :
              SameButCase(r.category, q.category)
                => capitalize(r.category) = capitalize(q.category)
         /\ sum_values(totals) = SumAmounts(rows)

\* two rows of one month stored as 'Food' and 'fOOD' next to nothing else:
\* one group holding both amounts
C22_Witness ==
  /\ last = Idle
  /\ \E r, q \in work.expenses :
       /\ r.category = "Food" /\ q.category = "fOOD"
       /\ strftime_Ym(r.date) = "2025-01" /\ strftime_Ym(q.date) = "2025-01"
       /\ r.amount # q.amount
       /\ category_totals(fetch_expenses_where("", "", "", "", "2025-01", ""))
            [capitalize("Food")] = r.amount + q.amount

\* C23: in the donut chart of any period, each category whose total is at
\* least 2% of the period total is a slice with exactly its own total, each
\* category below 2% is only inside the 'Other' slice, 'Other' is the sum of
\* the folded categories, and the slices add up to the period total.
C23_DonutFolding ==
  last = Idle =>
    \A y \in AnalyticsYears \ { "All Years" }, m \in AnalyticsMonths :
      LET expenses == get_filtered_data_for_charts(y, m, "All Categories")
          totals == category_totals(expenses)
          total == SumAmounts(Range(expenses))
          slices == generate_pie_chart_filtered(y, m, "All Categories")
          folded == { k \in DOMAIN totals : totals[k] * 100 < 2 * total }
      IN expenses # << >> =>
           /\ \A k \in DOMAIN totals \ folded :
                k \in DOMAIN slices /\ slices[k] = totals[k]
           /\ \A k \in folded : k \in DOMAIN slices => k = Other
           /\ folded # {} =>
                /\ Other \in DOMAIN slices
                /\ slices[Other] = SumAmounts({ r \in Range(expenses) :
                                      capitalize(r.category) \in folded })
           /\ sum_values(slices) = total

\* C24: for every selected year Y that has an expense, with the month
\* selector on 'All', generate_bar_chart_filtered draws exactly 12 values,
\* January to December in order, each the sum of the amounts of the Expense
\* rows dated in that month of Y, and 0 for a month without expenses.
C24_BarChartTwelveMonths ==
  last = Idle =>
    \A y \in AnalyticsYears \ { "All Years" }, c \in AnalyticsCategories :
      LET amounts == generate_bar_chart_filtered(y, "All", c)
      IN (\E r \in fetch_expenses : strftime_Y(r.date) = y) =>
           /\ Len(amounts) = 12
           /\ \A i \in 1..12 :
                amounts[i] = SumAmounts({ r \in fetch_expenses :
                               strftime_Ym(r.date) = labels_full_year(y)[i] })

\* budget minus the month's expenses, as the claim defines it
Remaining(month_year) ==
  get_monthly_budget(month_year)
    - SumAmounts({ r \in fetch_expenses : strftime_Ym(r.date) = month_year })

\* C25: on an open connection, for the displayed month the remaining budget
\* is get_monthly_budget(month) minus the sum of the amounts of the month's
\* Expense rows, and the status is 'over budget' exactly when the remaining
\* budget is negative; the dashboard (current month) and the Expenses-tab
\* summary (selected month) apply the same rule.
C25_BudgetStatus ==
  (last = Idle /\ conn = "open") =>
    /\ update_dashboard_summary.remaining = Remaining(CurrentMonth)
    /\ update_dashboard_summary.status = "Over Budget!"
         <=> Remaining(CurrentMonth) < 0
    /\ update_dashboard_summary.status = "On Track!"
         <=> Remaining(CurrentMonth) >= 0
    /\ \A m \in MonthChoices, y \in YearChoices :
         LET shown == update_summary_and_budget_display(m, y)
         IN /\ shown.remaining = Remaining(shown.month)
            /\ shown.status = "(Over Budget)" <=> Remaining(shown.month) < 0
            /\ (m # "" /\ y # "") => shown.month = month_year_to_set(y, m)

\* budget 1000 for January 2025 with one expense of 400 in that month:
\* remaining 600, on track, on both panels
C25_Witness ==
  /\ last = Idle
  /\ conn = "open"
  /\ get_monthly_budget("2025-01") = 1000
  /\ { r.amount : r \in { q \in work.expenses : strftime_Ym(q.date) = "2025-01" } }
       = { 400 }
  /\ update_dashboard_summary = [ remaining |-> 600, status |-> "On Track!" ]
  /\ update_summary_and_budget_display("01", "2025").remaining = 600
  /\ update_summary_and_budget_display("01", "2025").status = ""

\* C26: whenever Save Changes (update_expense_gui) writes to the store, the
\* row selected_expense_id names is the Expense row that edit_expense_gui
\* loaded into the form, still in the store with the content it had then: no
\* handler run in between has changed or removed it.
C26_SaveOverwritesEditedRow ==
  [][ ( /\ last = Idle
        /\ event'.handler = "update_expense_gui"
        /\ last'.op = "update_expense"
        /\ last'.ret = "True" )
      => ( /\ edited_expense.id = selected_expense_id
           /\ edited_expense \in work.expenses )
    ]_vars

\* C27: in every state a handler leaves behind, whether it returned or
\* raised, selected_expense_id is not None exactly when the add/update
\* button of the expense form runs update_expense_gui and Cancel Edit is
\* shown, and likewise for selected_income_id and the income form.
C27_SelectionMatchesButtons ==
  /\ selected_expense_id # 0
       <=> ( /\ add_update_expense_button = "update_expense_gui"
             /\ cancel_expense_edit_button )
  /\ selected_income_id # 0
       <=> ( /\ add_update_income_button = "update_income_gui"
             /\ cancel_income_edit_button )

Uncategorised(r) ==
  [ id |-> r.id, date |-> r.date, amount |-> r.amount,
    description |-> r.description ]

\* what update_category and delete_category must leave alone in a store
FrameOfCategoryOps(s) ==
  [ income |-> s.income, budgets |-> s.budgets,
    expenses |-> { Uncategorised(r) : r \in s.expenses } ]

\* C29: update_category and delete_category, whatever they return, change
\* only Category rows and the category field of Expense rows: the Income
\* rows (also those whose source is the renamed or deleted name), the Budget
\* rows and the id, date, amount and description of every Expense row are
\* the same after the call as before, in the file and as the connection
\* reads them.
C29_CategoryOpsFrame ==
  [][ ( /\ last = Idle
        /\ last'.op \in { "update_category", "delete_category" } )
      => ( /\ FrameOfCategoryOps(work') = FrameOfCategoryOps(work)
           /\ FrameOfCategoryOps(db') = FrameOfCategoryOps(db)
           /\ Cardinality(work'.expenses) = Cardinality(work.expenses) )
    ]_vars

\* the month of a date ("%m")
strftime_m(date) ==
  CASE date = "2024-01-20" -> "01"
    [] date = "2024-12-31" -> "12"
    [] date = "2025-01-10" -> "01"
    [] date = "2025-02-01" -> "02"

====
